---- MODULE Spec2Model ----
(***************************************************************************)
(* Recording Lab credits of riddimbase-backend (src/index.js):             *)
(* the tables recording_credits and recording_credit_history, and the      *)
(* request handlers GET /credits/balance, POST /credits/use,               *)
(* POST /credits/add and POST /subscriptions/sync; and the sale split      *)
(* (src/salesRoutes.js): the tables collaborators, beat_sales_split and    *)
(* user_wallet, and the request handler POST /sales/record-split; and the  *)
(* boosts (src/index.js): the table boosted_beats and the request handlers *)
(* POST /boosts/create, POST /api/boosts/activate, the two pause routes    *)
(* and the two delete routes, GET /api/boosted and GET /api/admin/boosts;   *)
(* the collaborator configuration POST /collab/set (src/unnamed/part_004); *)
(* the subscriptions (src/index.js): the table subscriptions, POST         *)
(* /api/subscriptions/activate and POST /api/paypal/subscription-webhook;  *)
(* the site banners (src/index.js): PUT /api/site/banners/:id/active; and  *)
(* the payout decisions (src/unnamed/part_005): the approve and deny       *)
(* routes of the table payouts.                                            *)
(*                                                                         *)
(* Every handler is an async function.  Between two awaited store calls a  *)
(* handler runs without interruption, so one action of the model is one    *)
(* store call together with the JavaScript that follows it up to the next  *)
(* store call (or the response).  Requests interleave at the store calls.  *)
(***************************************************************************)
EXTENDS Integers, Sequences, FiniteSets, TLC

\* ---------------------------------------------------------------- bounds
MaxRequests == 2        \* requests the server receives in one run
MaxFaults == 1          \* store calls that fail (network / database error)
MaxSplits == 2          \* record-split requests the server receives in one run
MaxBoosts == 2          \* boost requests the server receives in one run
MaxDay == 2             \* days the clock advances in one run
MaxCollabs == 1         \* POST /collab/set requests the server receives in one run
MaxBanners == 2         \* set-active requests the server receives in one run

Requests == 1..MaxRequests
Splits == 1..MaxSplits
Boosts == 1..MaxBoosts
Collabs == 1..MaxCollabs
Banners == 1..MaxBanners

\* ------------------------------------------------------ program constants
RECORDING_SESSION_COST == 200
SIGNUP_BONUS_CREDITS == 1000

CREDIT_PACKS == [pack_500 |-> 500, pack_1200 |-> 1200, pack_3000 |-> 3000]

RECORDING_PLANS ==
  [studio_lite |-> [id |-> "studio_lite", monthlyCredits |-> 2000, priority |-> FALSE],
   studio_pro  |-> [id |-> "studio_pro",  monthlyCredits |-> 6000, priority |-> TRUE]]

\* ------------------------------------------------------------ input values
NoVal == "null"                     \* null / undefined / absent field
Users == {"u1"}

\* A JavaScript number of a request body: int + (half ? 0.5 : 0), or a value
\* Number.isFinite rejects (absent, a string, NaN).
Num(i, h) == [finite |-> TRUE, int |-> i, half |-> h]
NotFinite == [finite |-> FALSE, int |-> 0, half |-> FALSE]
MathFloor(n) == n.int

HeaderInputs == Users \cup {NoVal}
UseAmountInputs == {NotFinite, Num(0, TRUE), Num(1200, FALSE)}
PackInputs == {NoVal, "pack_500", "pack_9"}
CreditInputs == {NotFinite, Num(1000, TRUE), Num(-1, TRUE)}
SourceInputs == {NoVal}
PlanInputs == {NoVal, "studio_lite", "studio_pro", "gold"}

\* ------------------------------------------------------------------ state
VARIABLES
  recording_credits,          \* table: set of rows, user_id unique
  recording_credit_history,   \* table: rows in insertion order
  pc,                         \* per request: the store call it waits for
  kind,                       \* per request: the route
  header,                     \* per request: the x-user-id header
  reqAmount,                  \* per request: req.body.amount of a debit
  userId,                     \* per request: resolved user id
  amount,                     \* per request: amount / creditsToAdd
  planId,                     \* per request: plan of a subscription sync
  source,                     \* per request: ledger source of /credits/add
  row,                        \* per request: row returned by ensureCreditsRow ({} = none yet)
  newBalance,                 \* per request: balance the handler computed
  data,                       \* per request: row returned by the balance update ({} = none)
  status,                     \* per request: HTTP status of the response (0 = none yet)
  error,                      \* per request: the error the handler caught
  faults                      \* store calls that have failed so far

creditvars == <<recording_credits, recording_credit_history, pc, kind, header, reqAmount,
                userId, amount, planId, source, row, newBalance, data, status, error,
                faults>>

\* the credit routes' state without the fault counter
ledgervars == <<recording_credits, recording_credit_history, pc, kind, header, reqAmount,
                userId, amount, planId, source, row, newBalance, data, status, error>>

VARIABLES
  collaborators,              \* table: rows in the order a select returns them
  beat_sales_split,           \* table: rows in insertion order
  user_wallet,                \* table: set of rows, user_id unique
  split                       \* per record-split request: the handler's frame

salesvars == <<collaborators, beat_sales_split, user_wallet, split>>

VARIABLES
  boosted_beats,              \* table: set of rows, id unique, beat_id unique
  boostIds,                   \* ids the table has handed out to inserted rows
  clock,                      \* the server's clock, in days
  boost                       \* per boost request: the handler's frame

boostvars == <<boosted_beats, boostIds, clock, boost>>

VARIABLES
  collab,                     \* per POST /collab/set request: the handler's frame
  listed,                     \* the last answer of GET /api/boosted
  subscriptions,              \* table: set of rows, (user_id, plan_id) unique
  hook,                       \* the last subscription request and its response
  site_banners,               \* table: is_active of each banner id
  banner,                     \* per set-active request: the handler's frame
  payouts,                    \* table: status of each payout id
  decision                    \* the last approve / deny request and its response

subvars == <<subscriptions, hook>>
bannervars == <<site_banners, banner>>
payoutvars == <<payouts, decision>>
sitevars == <<collab, listed, subvars, bannervars, payoutvars>>

vars == <<creditvars, salesvars, boostvars, sitevars>>

reqvars == <<kind, header, reqAmount, userId, amount, planId, source>>

RowsOf(u) == {x \in recording_credits : x.user_id = u}

NewRow(u) ==
  [user_id |-> u, balance |-> SIGNUP_BONUS_CREDITS,
   current_plan_id |-> NoVal, priority_processing |-> FALSE]

\* row?.balance ?? 0
BalanceOf(rows) == IF rows = {} THEN 0 ELSE (CHOOSE x \in rows : TRUE).balance

\* collaborators as POST /collab/set stores them: the percentages of a beat
\* total 100, user_id is null for a collaborator without an account.
\* split_percentage is counted in tenths of a percent.
CollaboratorRows ==
  << [id |-> "c1", beat_id |-> "b1", user_id |-> "u1", split_percentage |-> 600],
     [id |-> "c2", beat_id |-> "b1", user_id |-> "u2", split_percentage |-> 400],
     [id |-> "c3", beat_id |-> "b2", user_id |-> NoVal, split_percentage |-> 300],
     [id |-> "c4", beat_id |-> "b2", user_id |-> "u1", split_percentage |-> 700] >>

\* the frame of a record-split request that has not arrived: the body's
\* fields, the handler's locals, its position and its response.  Money of
\* the body and of the tables is counted in cents, creatorRevenue in
\* hundredths of a cent; platform_fee_rate is in percent, {} when absent.
\* attempted / credited: the collaborators whose wallet upsert the request
\* has issued / has had accepted.
IdleSplit ==
  [pc |-> "idle", sale_id |-> NoVal, beat_id |-> NoVal, totalAmount |-> NotFinite,
   platform_fee_rate |-> {}, creatorRevenue |-> 0, collabs |-> <<>>, i |-> 0,
   wallet |-> {}, attempted |-> {}, credited |-> {}, status |-> 0, error |-> NoVal]

\* the frame of a boost request that has not arrived: the route, the body's
\* or path's fields, the handler's locals (now, existing, existingError,
\* data), its position and its response.  Dates are counted in days.
IdleBoost ==
  [pc |-> "idle", kind |-> NoVal, beat_id |-> NoVal, days |-> 0, tier |-> 0, id |-> 0,
   now |-> 0, existing |-> {}, existingError |-> FALSE, data |-> {}, status |-> 0]

\* the frame of a POST /collab/set request that has not arrived: the body's
\* fields, the handler's local clean, its position and its response.
\* Percentages are counted in tenths of a percent.  before: the rows the
\* table held for the beat when the request arrived.
IdleCollab ==
  [pc |-> "idle", beat_id |-> NoVal, collaborators |-> <<>>, clean |-> <<>>,
   before |-> <<>>, status |-> 0, error |-> NoVal]

\* no list has been asked for yet
NoList == [route |-> NoVal, now |-> 0, items |-> <<>>, status |-> 0]

\* no subscription request has been handled yet
NoHook ==
  [route |-> NoVal, event_type |-> NoVal, user_id |-> NoVal, plan_id |-> NoVal,
   subscription_id |-> NoVal, status |-> 0]

\* the banners of the site, as POST /api/site/banners creates them
BannerIds == {"n1", "n2"}
BannerRows == [b \in BannerIds |-> [is_active |-> FALSE]]

\* the frame of a set-active request that has not arrived
IdleBanner == [pc |-> "idle", id |-> NoVal, data |-> {}, status |-> 0]

\* the payouts awaiting a decision
PayoutIds == {"p1", "p2"}
PayoutRows == [p \in PayoutIds |-> [status |-> "pending", completed_at |-> {}]]

\* no payout decision has been handled yet
NoDecision == [route |-> NoVal, id |-> NoVal, key |-> NoVal, status |-> 0]

Init ==
  /\ recording_credits = {}
  /\ recording_credit_history = <<>>
  /\ pc = [r \in Requests |-> "idle"]
  /\ kind = [r \in Requests |-> NoVal]
  /\ header = [r \in Requests |-> NoVal]
  /\ reqAmount = [r \in Requests |-> NotFinite]
  /\ userId = [r \in Requests |-> NoVal]
  /\ amount = [r \in Requests |-> 0]
  /\ planId = [r \in Requests |-> NoVal]
  /\ source = [r \in Requests |-> NoVal]
  /\ row = [r \in Requests |-> {}]
  /\ newBalance = [r \in Requests |-> 0]
  /\ data = [r \in Requests |-> {}]
  /\ status = [r \in Requests |-> 0]
  /\ error = [r \in Requests |-> NoVal]
  /\ faults = 0
  /\ collaborators = CollaboratorRows
  /\ beat_sales_split = <<>>
  /\ user_wallet = {}
  /\ split = [r \in Splits |-> IdleSplit]
  /\ boosted_beats = {}
  /\ boostIds = 0
  /\ clock = 0
  /\ boost = [r \in Boosts |-> IdleBoost]
  /\ collab = [r \in Collabs |-> IdleCollab]
  /\ listed = NoList
  /\ subscriptions = {}
  /\ hook = NoHook
  /\ site_banners = BannerRows
  /\ banner = [r \in Banners |-> IdleBanner]
  /\ payouts = PayoutRows
  /\ decision = NoDecision

\* ------------------------------------------------------- handler helpers
\* mutant: a request without the header is served as the first account
parseUserId_Default(value) == IF value # NoVal THEN value ELSE "u1"

parseUserId(value) == IF value # NoVal THEN value ELSE NoVal

\* the store's unique key on recording_credits.user_id: an insert for a user
\* that already has a row is rejected
AlreadyExists(u) == RowsOf(u) # {}

\* mutant: the guard compares the wrong value
InsufficientCredits_NoFunds(current, amt) == current <= 0

\* current < amount  (POST /credits/use)
InsufficientCredits(current, amt) == current < amt

\* mutant: zero is let through
InvalidAmount_ZeroOk(amt) == amt < 0

\* if (amount <= 0)  (POST /credits/use)
InvalidAmount(amt) == amt <= 0

UseAmount(raw) == IF raw.finite THEN MathFloor(raw) ELSE RECORDING_SESSION_COST

\* mutant: operands of the subtraction swapped
UseNewBalance_Swapped(current, amt) == amt - current

UseNewBalance(current, amt) == current - amt

\* mutant: a credit already contained in the balance is not applied again
AddNewBalance_Dedup(current, creditsToAdd) ==
  IF current >= SIGNUP_BONUS_CREDITS + creditsToAdd THEN current
  ELSE current + creditsToAdd

AddNewBalance(current, creditsToAdd) == current + creditsToAdd
SyncNewBalance(plan) == RECORDING_PLANS[plan].monthlyCredits

\* the delta each route writes to recording_credit_history
UseDelta(amt) == 0 - amt
AddDelta(creditsToAdd) == creditsToAdd
SyncDelta(nb, prior) == nb

\* mutant: the history insert's error is thrown after the balance was written
HistoryErrorThrown_Yes == TRUE

\* the handlers do not look at the result of the history insert
HistoryErrorThrown == FALSE

Reply(r, code) ==
  /\ pc' = [pc EXCEPT ![r] = "done"]
  /\ status' = [status EXCEPT ![r] = code]

Goto(r, label) ==
  /\ pc' = [pc EXCEPT ![r] = label]
  /\ UNCHANGED status

\* throw ... catch (err) { res.status(500) }
Throw(r, e) ==
  /\ Reply(r, 500)
  /\ error' = [error EXCEPT ![r] = e]

StoreFails ==
  /\ faults < MaxFaults
  /\ faults' = faults + 1

\* requests are numbered in the order they arrive
Arrives(r) ==
  /\ pc[r] = "idle"
  /\ IF r = 1 THEN TRUE ELSE pc[r - 1] # "idle"

\* mutant: the insert replaces the latest row instead of adding one
InsertRow_Replace(table, e) ==
  IF table = <<>> THEN <<e>> ELSE [table EXCEPT ![Len(table)] = e]

\* from('recording_credit_history').insert(e)
InsertRow(table, e) == Append(table, e)

HistoryEntry(r, u, delta, after, src) ==
  [by |-> r, user_id |-> u, delta |-> delta, balance_after |-> after, source |-> src]

\* ------------------------------------------------------------- requests
\* GET /credits/balance, up to the call of ensureCreditsRow
GetCreditsBalance(r) ==
  /\ Arrives(r)
  /\ \E header_ \in HeaderInputs :
       LET uid == parseUserId(header_) IN
       /\ kind' = [kind EXCEPT ![r] = "balance"]
       /\ header' = [header EXCEPT ![r] = header_]
       /\ userId' = [userId EXCEPT ![r] = uid]
       /\ IF uid = NoVal THEN Reply(r, 401) ELSE Goto(r, "select")
  /\ UNCHANGED <<recording_credits, recording_credit_history, reqAmount, amount,
                 planId, source, row, newBalance, data, error, faults>>
  /\ UNCHANGED <<salesvars, boostvars, sitevars>>

\* POST /credits/use, up to the call of ensureCreditsRow
PostCreditsUse(r) ==
  /\ Arrives(r)
  /\ \E header_ \in HeaderInputs, raw \in UseAmountInputs :
       LET uid == parseUserId(header_)
           amt == UseAmount(raw) IN
       /\ kind' = [kind EXCEPT ![r] = "use"]
       /\ header' = [header EXCEPT ![r] = header_]
       /\ userId' = [userId EXCEPT ![r] = uid]
       /\ IF uid = NoVal
            THEN Reply(r, 401) /\ UNCHANGED <<reqAmount, amount>>
            ELSE /\ reqAmount' = [reqAmount EXCEPT ![r] = raw]
                 /\ amount' = [amount EXCEPT ![r] = amt]
                 /\ IF InvalidAmount(amt) THEN Reply(r, 400) ELSE Goto(r, "select")
  /\ UNCHANGED <<recording_credits, recording_credit_history, planId,
                 source, row, newBalance, data, error, faults>>
  /\ UNCHANGED <<salesvars, boostvars, sitevars>>

\* POST /credits/add, up to the call of ensureCreditsRow
PostCreditsAdd(r) ==
  /\ Arrives(r)
  /\ \E header_ \in HeaderInputs, bodyUser \in HeaderInputs, packId \in PackInputs,
        credits \in CreditInputs, src \in SourceInputs :
       LET uid == IF bodyUser # NoVal THEN bodyUser ELSE parseUserId(header_)
           badPack == packId # NoVal /\ packId \notin DOMAIN CREDIT_PACKS
           creditsToAdd == IF packId # NoVal /\ ~badPack THEN CREDIT_PACKS[packId]
                           ELSE IF packId = NoVal /\ credits.finite THEN MathFloor(credits)
                           ELSE 0
           src2 == IF packId # NoVal \/ src = NoVal THEN "purchase" ELSE src IN
       \* the caller names the account in the body or in the header
       /\ ~(header_ # NoVal /\ bodyUser # NoVal)
       /\ kind' = [kind EXCEPT ![r] = "add"]
       /\ header' = [header EXCEPT ![r] = header_]
       /\ userId' = [userId EXCEPT ![r] = uid]
       /\ IF uid = NoVal
            THEN Reply(r, 401) /\ UNCHANGED <<amount, source>>
            ELSE IF badPack
            THEN Reply(r, 400) /\ UNCHANGED <<amount, source>>
            ELSE /\ amount' = [amount EXCEPT ![r] = creditsToAdd]
                 /\ source' = [source EXCEPT ![r] = src2]
                 /\ IF creditsToAdd <= 0 THEN Reply(r, 400) ELSE Goto(r, "select")
  /\ UNCHANGED <<recording_credits, recording_credit_history, reqAmount, planId,
                 row, newBalance, data, error, faults>>
  /\ UNCHANGED <<salesvars, boostvars, sitevars>>

\* POST /subscriptions/sync, up to the call of ensureCreditsRow
PostSubscriptionsSync(r) ==
  /\ Arrives(r)
  /\ \E bodyUser \in HeaderInputs, plan \in PlanInputs :
       /\ kind' = [kind EXCEPT ![r] = "sync"]
       /\ userId' = [userId EXCEPT ![r] = bodyUser]
       /\ planId' = [planId EXCEPT ![r] = plan]
       /\ IF bodyUser = NoVal \/ plan = NoVal THEN Reply(r, 400)
          ELSE IF plan \notin DOMAIN RECORDING_PLANS THEN Reply(r, 400)
          ELSE Goto(r, "select")
  /\ UNCHANGED <<recording_credits, recording_credit_history, header, reqAmount,
                 amount, source, row, newBalance, data, error, faults>>
  /\ UNCHANGED <<salesvars, boostvars, sitevars>>

\* what each handler does with the row ensureCreditsRow returned, up to its
\* balance update (or its response)
AfterEnsure(r, rows) ==
  LET current == BalanceOf(rows) IN
  /\ row' = [row EXCEPT ![r] = rows]
  /\ IF kind[r] = "balance"
       THEN Reply(r, 200) /\ UNCHANGED newBalance
     ELSE IF kind[r] = "use" /\ InsufficientCredits(current, amount[r])
       THEN Reply(r, 402) /\ UNCHANGED newBalance
     ELSE /\ newBalance' = [newBalance EXCEPT ![r] =
                 IF kind[r] = "use" THEN UseNewBalance(current, amount[r])
                 ELSE IF kind[r] = "add" THEN AddNewBalance(current, amount[r])
                 ELSE SyncNewBalance(planId[r])]
          /\ Goto(r, "update")

\* ensureCreditsRow: select ... maybeSingle()
EnsureSelect(r) ==
  /\ pc[r] = "select"
  /\ \/ /\ StoreFails
        /\ Throw(r, "Unavailable")
        /\ UNCHANGED <<row, newBalance>>
     \/ /\ RowsOf(userId[r]) # {}
        /\ AfterEnsure(r, RowsOf(userId[r]))
        /\ UNCHANGED <<error, faults>>
     \/ /\ RowsOf(userId[r]) = {}
        /\ Goto(r, "insert")
        /\ UNCHANGED <<row, newBalance, error, faults>>
  /\ UNCHANGED <<recording_credits, recording_credit_history, reqvars, data>>
  /\ UNCHANGED <<salesvars, boostvars, sitevars>>

\* ensureCreditsRow: insert({ user_id, balance: SIGNUP_BONUS_CREDITS })
EnsureInsert(r) ==
  /\ pc[r] = "insert"
  /\ \/ /\ StoreFails
        /\ Throw(r, "Unavailable")
        /\ UNCHANGED <<recording_credits, row>>
     \/ /\ AlreadyExists(userId[r])
        /\ Throw(r, "AlreadyExists")
        /\ UNCHANGED <<recording_credits, row, faults>>
     \/ /\ ~AlreadyExists(userId[r])
        /\ recording_credits' = recording_credits \cup {NewRow(userId[r])}
        /\ row' = [row EXCEPT ![r] = {NewRow(userId[r])}]
        /\ Goto(r, "signup")
        /\ UNCHANGED <<error, faults>>
  /\ UNCHANGED <<recording_credit_history, reqvars, newBalance, data>>
  /\ UNCHANGED <<salesvars, boostvars, sitevars>>

\* ensureCreditsRow: the 'signup' history entry, whose result is not looked at
EnsureSignup(r) ==
  /\ pc[r] = "signup"
  /\ \/ /\ recording_credit_history' = InsertRow(recording_credit_history,
               HistoryEntry(r, userId[r], SIGNUP_BONUS_CREDITS, BalanceOf(row[r]), "signup"))
        /\ UNCHANGED faults
     \/ /\ StoreFails
        /\ UNCHANGED recording_credit_history
  /\ AfterEnsure(r, row[r])
  /\ UNCHANGED <<recording_credits, reqvars, data, error>>
  /\ UNCHANGED <<salesvars, boostvars, sitevars>>

\* mutant: the sync adds the allowance to the balance
UpdatedRow_Increment(r, x) ==
  IF kind[r] = "sync"
    THEN [x EXCEPT !.balance = x.balance + newBalance[r],
                   !.current_plan_id = RECORDING_PLANS[planId[r]].id,
                   !.priority_processing = RECORDING_PLANS[planId[r]].priority]
    ELSE [x EXCEPT !.balance = newBalance[r]]

\* mutant: the sync leaves priority_processing as it was
UpdatedRow_PlanOnly(r, x) ==
  IF kind[r] = "sync"
    THEN [x EXCEPT !.balance = newBalance[r],
                   !.current_plan_id = RECORDING_PLANS[planId[r]].id]
    ELSE [x EXCEPT !.balance = newBalance[r]]

\* the row the balance update of a handler leaves
UpdatedRow(r, x) ==
  IF kind[r] = "sync"
    THEN [x EXCEPT !.balance = newBalance[r],
                   !.current_plan_id = RECORDING_PLANS[planId[r]].id,
                   !.priority_processing = RECORDING_PLANS[planId[r]].priority]
    ELSE [x EXCEPT !.balance = newBalance[r]]

\* update({ balance: newBalance }).eq('user_id', userId).select().single()
UpdateBalance(r) ==
  /\ pc[r] = "update"
  /\ \/ /\ StoreFails
        /\ Throw(r, "Unavailable")
        /\ UNCHANGED <<recording_credits, data>>
     \/ /\ IF RowsOf(userId[r]) = {}
             THEN Throw(r, "NotFound") /\ UNCHANGED <<recording_credits, data>>
             ELSE /\ recording_credits' =
                        {IF x.user_id = userId[r] THEN UpdatedRow(r, x) ELSE x :
                           x \in recording_credits}
                  /\ data' = [data EXCEPT ![r] = {UpdatedRow(r, x) : x \in RowsOf(userId[r])}]
                  /\ Goto(r, "history")
                  /\ UNCHANGED error
        /\ UNCHANGED faults
  /\ UNCHANGED <<recording_credit_history, reqvars, row, newBalance>>
  /\ UNCHANGED <<salesvars, boostvars, sitevars>>

LedgerDelta(r) ==
  IF kind[r] = "use" THEN UseDelta(amount[r])
  ELSE IF kind[r] = "add" THEN AddDelta(amount[r])
  ELSE SyncDelta(newBalance[r], BalanceOf(row[r]))

LedgerSource(r) ==
  IF kind[r] = "use" THEN "session"
  ELSE IF kind[r] = "add" THEN source[r]
  ELSE "subscription"

\* recording_credit_history insert of a handler, then its response
InsertHistory(r) ==
  /\ pc[r] = "history"
  /\ \/ /\ recording_credit_history' = InsertRow(recording_credit_history,
               HistoryEntry(r, userId[r], LedgerDelta(r), BalanceOf(data[r]), LedgerSource(r)))
        /\ Reply(r, 200)
        /\ UNCHANGED <<error, faults>>
     \/ /\ StoreFails
        /\ UNCHANGED recording_credit_history
        /\ IF HistoryErrorThrown THEN Throw(r, "Unavailable")
           ELSE Reply(r, 200) /\ UNCHANGED error
  /\ UNCHANGED <<recording_credits, reqvars, row, newBalance, data>>
  /\ UNCHANGED <<salesvars, boostvars, sitevars>>

Next ==
  \E r \in Requests :
    \/ GetCreditsBalance(r)
    \/ PostCreditsUse(r)
    \/ PostCreditsAdd(r)
    \/ PostSubscriptionsSync(r)
    \/ EnsureSelect(r)
    \/ EnsureInsert(r)
    \/ EnsureSignup(r)
    \/ UpdateBalance(r)
    \/ InsertHistory(r)

Spec == Init /\ [][Next]_vars

\* the same server when every request is answered before the next one arrives
NextInSequence ==
  \E r \in Requests :
    \/ (\A q \in Requests : pc[q] \in {"idle", "done"}) /\ GetCreditsBalance(r)
    \/ (\A q \in Requests : pc[q] \in {"idle", "done"}) /\ PostCreditsUse(r)
    \/ (\A q \in Requests : pc[q] \in {"idle", "done"}) /\ PostCreditsAdd(r)
    \/ (\A q \in Requests : pc[q] \in {"idle", "done"}) /\ PostSubscriptionsSync(r)
    \/ EnsureSelect(r)
    \/ EnsureInsert(r)
    \/ EnsureSignup(r)
    \/ UpdateBalance(r)
    \/ InsertHistory(r)

SpecInSequence == Init /\ [][NextInSequence]_vars

\* ------------------------------------------------------------ sale split
\* inputs of POST /sales/record-split
SaleInputs == {NoVal, "s1"}
BeatInputs == {"b0", "b1", "b2"}
AmountInputs == {NotFinite, Num(10000, FALSE), Num(999, FALSE)}
FeeInputs == {{}, {150}}

\* the bodies drawn: a rejected body has one field wrong; the fee above 100
\* percent comes with one beat and one amount, the other beats with one
\* amount
BodyDrawn(sale, beat, amt, fee) ==
  /\ (sale = NoVal \/ ~amt.finite \/ fee # {}) => beat = "b1"
  /\ (sale = NoVal \/ ~amt.finite) => fee = {}
  /\ (sale = NoVal \/ fee # {} \/ beat # "b1") => (amt.finite /\ amt.int = 10000)

\* mutant: an absent platform_fee_rate counts as no fee
PlatformFeeRate_NoDefault(fee) == IF fee = {} THEN 0 ELSE CHOOSE p \in fee : TRUE

\* platform_fee_rate = 0.10 of the destructuring, then Number(platform_fee_rate || 0)
PlatformFeeRate(fee) == IF fee = {} THEN 10 ELSE CHOOSE p \in fee : TRUE

\* Math.max(0, totalAmount * (1 - Number(platform_fee_rate || 0)))
creatorRevenue(totalAmount, fee) ==
  LET x == totalAmount * (100 - PlatformFeeRate(fee)) IN
  IF x > 0 THEN x ELSE 0

\* Number(x.toFixed(2)) for x = n / 10000 >= 0, in cents: the nearest cent.
\* (x exactly between two cents is decided by the binary value of the
\* double; no amount drawn here lies there.)
toFixed2(n) == (2 * n + 10000) \div 20000

\* Number(((creatorRevenue * Number(c.split_percentage || 0)) / 100).toFixed(2))
\* (split_percentage in tenths of a percent)
payout(cr, c) == toFixed2((cr * c.split_percentage) \div 10)

\* the rows the handler inserts into beat_sales_split (currency left out)
inserts(r) ==
  [j \in 1..Len(split[r].collabs) |->
     [by |-> r, sale_id |-> split[r].sale_id, beat_id |-> split[r].beat_id,
      collaborator_id |-> split[r].collabs[j].id,
      amount_earned |-> payout(split[r].creatorRevenue, split[r].collabs[j])]]

\* Number((Number(wallet?.balance || 0) + payout).toFixed(2))
walletNewBalance(wallet, p) ==
  (IF wallet = {} THEN 0 ELSE (CHOOSE w \in wallet : TRUE).balance) + p

\* from('user_wallet').upsert(w): user_id is the table's key
Upsert(table, w) == {x \in table : x.user_id # w.user_id} \cup {w}

\* for (const c of collabs) { if (!c.user_id) continue ... }: the index of the
\* next collaborator with an account, Len(cs) + 1 when the loop is over
RECURSIVE NextLinked(_, _)
NextLinked(cs, j) ==
  IF j > Len(cs) THEN Len(cs) + 1
  ELSE IF cs[j].user_id # NoVal THEN j
  ELSE NextLinked(cs, j + 1)

\* the wallet loop goes on with the collaborator at index j, or the handler
\* answers res.json({ ok: true, ... })
LoopFrom(frame, j) ==
  IF j > Len(frame.collabs)
    THEN [frame EXCEPT !.pc = "done", !.i = j, !.wallet = {}, !.status = 200]
    ELSE [frame EXCEPT !.pc = "wallet", !.i = j, !.wallet = {}]

\* mutant: a failed insert of the split rows does not end the handler
LedgerErrReturns_No == FALSE

\* if (ledgerErr) return res.status(400)
LedgerErrReturns == TRUE

\* mutant: a failed wallet upsert is thrown to the handler's catch
WalletErrorThrown_Yes == TRUE

\* the results of the user_wallet calls are not inspected
WalletErrorThrown == FALSE

\* mutant: an empty collaborator list is processed like any other
NoCollaborators_Never(cs) == FALSE

\* if (!collabs || collabs.length === 0)
NoCollaborators(cs) == cs = <<>>

SplitArrives(r) ==
  /\ split[r].pc = "idle"
  /\ IF r = 1 THEN TRUE ELSE split[r - 1].pc # "idle"

\* POST /sales/record-split, up to the select on collaborators
PostSalesRecordSplit(r) ==
  /\ SplitArrives(r)
  /\ \E sale \in SaleInputs, beat \in BeatInputs, amt \in AmountInputs, fee \in FeeInputs :
       LET body == [split[r] EXCEPT !.sale_id = sale, !.beat_id = beat,
                                    !.totalAmount = amt, !.platform_fee_rate = fee] IN
       /\ BodyDrawn(sale, beat, amt, fee)
       /\ split' = [split EXCEPT ![r] =
            IF sale = NoVal \/ beat = NoVal \/ ~amt.finite
              THEN [body EXCEPT !.pc = "done", !.status = 400, !.error = "required"]
              ELSE [body EXCEPT !.pc = "collabs",
                                !.creatorRevenue = creatorRevenue(amt.int, fee)]]
  /\ UNCHANGED <<collaborators, beat_sales_split, user_wallet, creditvars, boostvars, sitevars>>

\* the select on collaborators, then the payouts
SelectCollaborators(r) ==
  /\ split[r].pc = "collabs"
  /\ \/ /\ LET cs == SelectSeq(collaborators, LAMBDA c : c.beat_id = split[r].beat_id) IN
             split' = [split EXCEPT ![r] =
               IF NoCollaborators(cs) THEN [@ EXCEPT !.pc = "done", !.status = 200]
               ELSE [@ EXCEPT !.pc = "insert", !.collabs = cs]]
        /\ UNCHANGED faults
     \/ /\ StoreFails
        /\ split' = [split EXCEPT ![r] =
             [@ EXCEPT !.pc = "done", !.status = 400, !.error = "collabErr"]]
  /\ UNCHANGED <<collaborators, beat_sales_split, user_wallet, ledgervars, boostvars, sitevars>>

\* the insert into beat_sales_split, then the loop up to the first wallet read
InsertSplits(r) ==
  /\ split[r].pc = "insert"
  /\ \/ /\ beat_sales_split' = beat_sales_split \o inserts(r)
        /\ split' = [split EXCEPT ![r] = LoopFrom(@, NextLinked(@.collabs, 1))]
        /\ UNCHANGED faults
     \/ /\ StoreFails
        /\ UNCHANGED beat_sales_split
        /\ split' = [split EXCEPT ![r] =
             IF LedgerErrReturns
               THEN [@ EXCEPT !.pc = "done", !.status = 400, !.error = "ledgerErr"]
               ELSE LoopFrom([@ EXCEPT !.error = "ledgerErr"], NextLinked(@.collabs, 1))]
  /\ UNCHANGED <<collaborators, user_wallet, ledgervars, boostvars, sitevars>>

\* the select on user_wallet for collabs[i]; its error is not read
SelectWallet(r) ==
  /\ split[r].pc = "wallet"
  /\ \/ /\ split' = [split EXCEPT ![r] =
             [@ EXCEPT !.pc = "upsert",
                       !.wallet = {w \in user_wallet :
                                     w.user_id = split[r].collabs[split[r].i].user_id}]]
        /\ UNCHANGED faults
     \/ /\ StoreFails
        /\ split' = [split EXCEPT ![r] = [@ EXCEPT !.pc = "upsert", !.wallet = {}]]
  /\ UNCHANGED <<collaborators, beat_sales_split, user_wallet, ledgervars, boostvars, sitevars>>

\* the upsert into user_wallet for collabs[i], then the loop up to the next
\* wallet read or the response
UpsertWallet(r) ==
  /\ split[r].pc = "upsert"
  /\ LET c == split[r].collabs[split[r].i]
         w == [user_id |-> c.user_id,
               balance |-> walletNewBalance(split[r].wallet, payout(split[r].creatorRevenue, c))]
         tried == [split[r] EXCEPT !.attempted = @ \cup {c.id}]
     IN
     \/ /\ user_wallet' = Upsert(user_wallet, w)
        /\ split' = [split EXCEPT ![r] =
             LoopFrom([tried EXCEPT !.credited = @ \cup {c.id}],
                      NextLinked(tried.collabs, tried.i + 1))]
        /\ UNCHANGED faults
     \/ /\ StoreFails
        /\ UNCHANGED user_wallet
        /\ split' = [split EXCEPT ![r] =
             IF WalletErrorThrown
               THEN [tried EXCEPT !.pc = "done", !.status = 500, !.error = "thrown"]
               ELSE LoopFrom(tried, NextLinked(tried.collabs, tried.i + 1))]
  /\ UNCHANGED <<collaborators, beat_sales_split, ledgervars, boostvars, sitevars>>

\* the sale split on its own: it shares no table with the credit routes
NextSplit ==
  \E r \in Splits :
    \/ PostSalesRecordSplit(r)
    \/ SelectCollaborators(r)
    \/ InsertSplits(r)
    \/ SelectWallet(r)
    \/ UpsertWallet(r)

SpecSplit == Init /\ [][NextSplit]_vars

\* ---------------------------------------------------------------- boosts
\* inputs of the boost routes
BoostBeatInputs == {"b1", "b2"}
DaysInputs == {0, 1, 7, 14, -1}
TierInputs == {1, 2, 3, 4}
BoostIdInputs == {1, 2}

\* the bodies drawn: the second beat comes with one days value and one tier
BoostDrawn(beat, n) == beat = "b2" => n \in {2, 7}

\* mutant: the first breakpoint is exclusive
tierOf_Exclusive(days) ==
  IF days > 7 /\ days < 14 THEN 2 ELSE IF days >= 14 THEN 3 ELSE 1

\* let tier = 1; if (days >= 7 && days < 14) tier = 2; else if (days >= 14) tier = 3
tierOf(days) ==
  IF days >= 7 /\ days < 14 THEN 2 ELSE IF days >= 14 THEN 3 ELSE 1

\* const boostLengthDays = { 1: 3, 2: 7, 3: 30 }
boostLengthDays == <<3, 7, 30>>

\* the store's unique key on boosted_beats.beat_id, the conflict target of the
\* upsert: an insert for a beat that already has a row is rejected
BeatAlreadyBoosted(beat) == \E x \in boosted_beats : x.beat_id = beat

\* mutant: the extension starts from now
expiresAtOf_FromNow(existing, now, tier) == now + boostLengthDays[tier]

\* let expiresAt = now + length; if (existing && existing.expires_at)
\* { base = currentExpiry > now ? currentExpiry : now; expiresAt = base + length }
expiresAtOf(existing, now, tier) ==
  IF existing = {} THEN now + boostLengthDays[tier]
  ELSE LET currentExpiry == (CHOOSE x \in existing : TRUE).expires_at
           base == IF currentExpiry > now THEN currentExpiry ELSE now
       IN base + boostLengthDays[tier]

\* the row POST /boosts/create inserts (producer_id and paypal_order_id left out)
CreatedBoost(f, newId) ==
  [id |-> newId, beat_id |-> f.beat_id, tier |-> f.tier, starts_at |-> f.now,
   expires_at |-> f.now + f.days, priority_score |-> f.tier * 100]

\* the payload of POST /api/boosts/activate, as a row with the given id
ActivatedBoost(f, rowId) ==
  [id |-> rowId, beat_id |-> f.beat_id, tier |-> f.tier, starts_at |-> f.now,
   expires_at |-> expiresAtOf(f.existing, f.now, f.tier),
   priority_score |-> f.tier * 100]

\* mutant: the upsert adds a row whether or not the beat has one
UpsertBoost_Insert(table, f, newId) == table \cup {ActivatedBoost(f, newId)}

\* from('boosted_beats').upsert(payload, { onConflict: 'beat_id' }): the
\* beat's row takes the payload's values and keeps its id, or a row with a
\* new id is inserted
UpsertBoost(table, f, newId) ==
  IF \E x \in table : x.beat_id = f.beat_id
    THEN {IF x.beat_id = f.beat_id THEN ActivatedBoost(f, x.id) ELSE x : x \in table}
    ELSE table \cup {ActivatedBoost(f, newId)}

\* mutant: pause keeps the boost for another day
PauseExpiresAt_Tomorrow(now) == now + 1

\* mutant: pause starts a three-day boost
PauseExpiresAt_Renew(now) == now + 3

\* .update({ expires_at: now })
PauseExpiresAt(now) == now

\* .gt('expires_at', now) of GET /api/boosted and GET /api/admin/boosts
ActiveBoosts(now) == {x \in boosted_beats : x.expires_at > now}

BoostArrives(r) ==
  /\ boost[r].pc = "idle"
  /\ IF r = 1 THEN TRUE ELSE boost[r - 1].pc # "idle"

BoostReply(f, code) == [f EXCEPT !.pc = "done", !.status = code]

\* POST /boosts/create, up to the insert
PostBoostsCreate(r) ==
  /\ BoostArrives(r)
  /\ \E beat \in BoostBeatInputs, days \in DaysInputs :
       LET f == [boost[r] EXCEPT !.kind = "create", !.beat_id = beat, !.days = days,
                                 !.now = clock] IN
       /\ BoostDrawn(beat, days)
       /\ boost' = [boost EXCEPT ![r] =
            IF days = 0 THEN BoostReply(f, 400)
            ELSE [f EXCEPT !.pc = "insert", !.tier = tierOf(days)]]
  /\ UNCHANGED <<boosted_beats, boostIds, clock, creditvars, salesvars, sitevars>>

\* the insert of POST /boosts/create, then the response
InsertBoost(r) ==
  /\ boost[r].pc = "insert"
  /\ \/ /\ IF BeatAlreadyBoosted(boost[r].beat_id)
             THEN /\ boost' = [boost EXCEPT ![r] = BoostReply(@, 500)]
                  /\ UNCHANGED <<boosted_beats, boostIds>>
             ELSE LET x == CreatedBoost(boost[r], boostIds + 1) IN
                  /\ boosted_beats' = boosted_beats \cup {x}
                  /\ boostIds' = boostIds + 1
                  /\ boost' = [boost EXCEPT ![r] = BoostReply([@ EXCEPT !.data = {x}], 200)]
        /\ UNCHANGED faults
     \/ /\ StoreFails
        /\ boost' = [boost EXCEPT ![r] = BoostReply(@, 500)]
        /\ UNCHANGED <<boosted_beats, boostIds>>
  /\ UNCHANGED <<clock, ledgervars, salesvars, sitevars>>

\* POST /api/boosts/activate, up to the lookup of the existing boost
PostBoostsActivate(r) ==
  /\ BoostArrives(r)
  /\ \E beat \in BoostBeatInputs, tier \in TierInputs :
       LET f == [boost[r] EXCEPT !.kind = "activate", !.beat_id = beat, !.tier = tier,
                                 !.now = clock] IN
       /\ BoostDrawn(beat, tier)
       /\ boost' = [boost EXCEPT ![r] =
            IF tier \notin {1, 2, 3} THEN BoostReply(f, 400)
            ELSE [f EXCEPT !.pc = "existing"]]
  /\ UNCHANGED <<boosted_beats, boostIds, clock, creditvars, salesvars, sitevars>>

\* the lookup of the beat's latest boost; its error is only logged
SelectExisting(r) ==
  /\ boost[r].pc = "existing"
  /\ \/ /\ boost' = [boost EXCEPT ![r] =
             [@ EXCEPT !.pc = "upsert",
                       !.existing = {x \in boosted_beats : x.beat_id = boost[r].beat_id}]]
        /\ UNCHANGED faults
     \/ /\ StoreFails
        /\ boost' = [boost EXCEPT ![r] = [@ EXCEPT !.pc = "upsert", !.existingError = TRUE]]
  /\ UNCHANGED <<boosted_beats, boostIds, clock, ledgervars, salesvars, sitevars>>

\* the upsert of POST /api/boosts/activate, then the response
UpsertBoostedBeat(r) ==
  /\ boost[r].pc = "upsert"
  /\ \/ /\ boosted_beats' = UpsertBoost(boosted_beats, boost[r], boostIds + 1)
        /\ boostIds' = IF BeatAlreadyBoosted(boost[r].beat_id) THEN boostIds ELSE boostIds + 1
        /\ boost' = [boost EXCEPT ![r] =
             BoostReply([@ EXCEPT !.data = {x \in boosted_beats' : x.beat_id = boost[r].beat_id}],
                        200)]
        /\ UNCHANGED faults
     \/ /\ StoreFails
        /\ boost' = [boost EXCEPT ![r] = BoostReply(@, 500)]
        /\ UNCHANGED <<boosted_beats, boostIds>>
  /\ UNCHANGED <<clock, ledgervars, salesvars, sitevars>>

\* POST /api/admin/boosts/:id/pause and POST /api/boosts/:id/pause, up to the update
PostBoostsPause(r) ==
  /\ BoostArrives(r)
  /\ \E id \in BoostIdInputs :
       boost' = [boost EXCEPT ![r] =
         [@ EXCEPT !.kind = "pause", !.id = id, !.now = clock, !.pc = "update"]]
  /\ UNCHANGED <<boosted_beats, boostIds, clock, creditvars, salesvars, sitevars>>

\* the update of a pause route, then the response
UpdateExpiresAt(r) ==
  /\ boost[r].pc = "update"
  /\ \/ /\ boosted_beats' =
             {IF x.id = boost[r].id
                THEN [x EXCEPT !.expires_at = PauseExpiresAt(boost[r].now)]
                ELSE x : x \in boosted_beats}
        /\ boost' = [boost EXCEPT ![r] =
             BoostReply([@ EXCEPT !.data = {x \in boosted_beats' : x.id = boost[r].id}], 200)]
        /\ UNCHANGED faults
     \/ /\ StoreFails
        /\ boost' = [boost EXCEPT ![r] = BoostReply(@, 500)]
        /\ UNCHANGED boosted_beats
  /\ UNCHANGED <<boostIds, clock, ledgervars, salesvars, sitevars>>

\* DELETE /api/admin/boosts/:id and DELETE /api/boosts/:id, up to the delete
DeleteBoosts(r) ==
  /\ BoostArrives(r)
  /\ \E id \in BoostIdInputs :
       boost' = [boost EXCEPT ![r] =
         [@ EXCEPT !.kind = "delete", !.id = id, !.now = clock, !.pc = "delete"]]
  /\ UNCHANGED <<boosted_beats, boostIds, clock, creditvars, salesvars, sitevars>>

\* the delete of a delete route, then the response
DeleteBoostedBeat(r) ==
  /\ boost[r].pc = "delete"
  /\ \/ /\ boosted_beats' = {x \in boosted_beats : x.id # boost[r].id}
        /\ boost' = [boost EXCEPT ![r] = BoostReply(@, 200)]
        /\ UNCHANGED faults
     \/ /\ StoreFails
        /\ boost' = [boost EXCEPT ![r] = BoostReply(@, 500)]
        /\ UNCHANGED boosted_beats
  /\ UNCHANGED <<boostIds, clock, ledgervars, salesvars, sitevars>>

\* a day passes; a request is answered within the day it arrived
Tick ==
  /\ clock < MaxDay
  /\ \A r \in Boosts : boost[r].pc \in {"idle", "done"}
  /\ clock' = clock + 1
  /\ UNCHANGED <<boosted_beats, boostIds, boost, creditvars, salesvars, sitevars>>

\* the boost routes on their own: they share no table with the other routes
NextBoost ==
  \/ \E r \in Boosts :
       \/ PostBoostsCreate(r)
       \/ InsertBoost(r)
       \/ PostBoostsActivate(r)
       \/ SelectExisting(r)
       \/ UpsertBoostedBeat(r)
       \/ PostBoostsPause(r)
       \/ UpdateExpiresAt(r)
       \/ DeleteBoosts(r)
       \/ DeleteBoostedBeat(r)
  \/ Tick

SpecBoost == Init /\ [][NextBoost]_vars

\* ------------------------------------------------- collaborator configuration
\* POST /collab/set (src/unnamed/part_004): two store calls, so two actions
\* after the arrival.  A collaborator of the body carries user_id,
\* split_percentage and split (0 when the field is absent); email and role
\* are stored and never read, and are left out.  Percentages are counted in
\* tenths of a percent.
CollabBeatInputs == {NoVal, "b1"}
CollaboratorInputs ==
  { << [user_id |-> "u1", split_percentage |-> 500, split |-> 0],
       [user_id |-> "u2", split_percentage |-> 0, split |-> 500] >>,
    << [user_id |-> "u1", split_percentage |-> 996, split |-> 0] >>,
    << [user_id |-> "u1", split_percentage |-> 600, split |-> 0],
       [user_id |-> "u2", split_percentage |-> 300, split |-> 0] >> }

\* Number(c.split_percentage || c.split || 0)
splitOf(c) == IF c.split_percentage # 0 THEN c.split_percentage ELSE c.split

\* collaborators.reduce((sum, c) => sum + Number(...), 0)
RECURSIVE total(_)
total(cs) == IF cs = <<>> THEN 0 ELSE total(SubSeq(cs, 1, Len(cs) - 1)) + splitOf(cs[Len(cs)])

\* Math.round(x) of x = t / 10: the nearest integer, a half goes up
MathRound(t) == (t + 5) \div 10

\* Math.round(total) !== 100
TotalRejected(t) == MathRound(t) # 100

\* the rows the handler inserts; the table names each new row
clean(r, beat, cs) ==
  [j \in DOMAIN cs |->
     [id |-> "n" \o ToString(r) \o ToString(j), beat_id |-> beat,
      user_id |-> cs[j].user_id, split_percentage |-> splitOf(cs[j])]]

\* the rows the table holds for a beat
CollaboratorsOf(beat) == SelectSeq(collaborators, LAMBDA c : c.beat_id = beat)

CollabArrives(r) ==
  /\ collab[r].pc = "idle"
  /\ IF r = 1 THEN TRUE ELSE collab[r - 1].pc # "idle"

\* the request arrives and is validated; a valid one is about to delete
PostCollabSet(r) ==
  /\ CollabArrives(r)
  /\ \E beat \in CollabBeatInputs, cs \in CollaboratorInputs :
       collab' = [collab EXCEPT ![r] =
         IF beat = NoVal
         THEN [@ EXCEPT !.pc = "done", !.beat_id = beat, !.collaborators = cs,
                        !.status = 400, !.error = "required"]
         ELSE IF TotalRejected(total(cs))
         THEN [@ EXCEPT !.pc = "done", !.beat_id = beat, !.collaborators = cs,
                        !.before = CollaboratorsOf(beat),
                        !.status = 400, !.error = "total"]
         ELSE [@ EXCEPT !.pc = "delete", !.beat_id = beat, !.collaborators = cs,
                        !.before = CollaboratorsOf(beat),
                        !.clean = clean(r, beat, cs)]]
  /\ UNCHANGED <<collaborators, beat_sales_split, user_wallet, split, creditvars,
                 boostvars, listed, subvars, bannervars, payoutvars>>

\* .delete().eq('beat_id', beat_id): the handler does not look at the result
DeleteCollaborators(r) ==
  /\ collab[r].pc = "delete"
  /\ \/ /\ collaborators' =
             SelectSeq(collaborators, LAMBDA c : c.beat_id # collab[r].beat_id)
        /\ UNCHANGED faults
     \/ /\ StoreFails
        /\ UNCHANGED collaborators
  /\ collab' = [collab EXCEPT ![r] = [@ EXCEPT !.pc = "insert"]]
  /\ UNCHANGED <<beat_sales_split, user_wallet, split, ledgervars,
                 boostvars, listed, subvars, bannervars, payoutvars>>

\* .insert(clean).select('*'): its error is answered with 400
InsertCollaborators(r) ==
  /\ collab[r].pc = "insert"
  /\ \/ /\ collaborators' = collaborators \o collab[r].clean
        /\ collab' = [collab EXCEPT ![r] = [@ EXCEPT !.pc = "done", !.status = 200]]
        /\ UNCHANGED faults
     \/ /\ StoreFails
        /\ collab' = [collab EXCEPT ![r] =
             [@ EXCEPT !.pc = "done", !.status = 400, !.error = "insert"]]
        /\ UNCHANGED collaborators
  /\ UNCHANGED <<beat_sales_split, user_wallet, split, ledgervars,
                 boostvars, listed, subvars, bannervars, payoutvars>>

NextCollab ==
  \E r \in Collabs :
    \/ PostCollabSet(r)
    \/ DeleteCollaborators(r)
    \/ InsertCollaborators(r)

\* the configuration together with the sale split that reads it
NextSplitCollab == NextSplit \/ NextCollab

SpecCollab == Init /\ [][NextSplitCollab]_vars

\* ------------------------------------------------------------ boost listing
\* GET /api/boosted and GET /api/admin/boosts: one select each, so each
\* handler is one action.
BOOSTED_LIMIT == 200
ADMIN_BOOSTS_LIMIT == 500

\* .order('priority_score', { ascending: false })
\* .order('starts_at', { ascending: false })
Ordered(s) ==
  \A i \in DOMAIN s, j \in DOMAIN s :
    i < j => \/ s[i].priority_score > s[j].priority_score
             \/ /\ s[i].priority_score = s[j].priority_score
                /\ s[i].starts_at >= s[j].starts_at

\* the answers the store can give to
\* .gt('expires_at', now).order(...).order(...).limit(limit): the rows that
\* expire after now, in an order that follows the two keys, cut at the
\* limit.  Rows that agree on both keys come in whichever order the store
\* finds them.
ListAnswers(table, now, limit) ==
  LET act == {x \in table : x.expires_at > now}
      n == Cardinality(act)
      kept == IF n < limit THEN n ELSE limit
  IN {SubSeq(s, 1, kept) :
        s \in {t \in [1..n -> act] :
                 /\ \A i \in 1..n, j \in 1..n : i # j => t[i] # t[j]
                 /\ Ordered(t)}}

ListBoosts(route, limit) ==
  /\ \/ /\ \E s \in ListAnswers(boosted_beats, clock, limit) :
             listed' = [route |-> route, now |-> clock, items |-> s, status |-> 200]
        /\ UNCHANGED faults
     \/ /\ StoreFails
        /\ listed' = [route |-> route, now |-> clock, items |-> <<>>, status |-> 500]
  /\ UNCHANGED <<ledgervars, salesvars, boostvars, collab, subvars, bannervars,
                 payoutvars>>

\* GET /api/boosted
GetBoosted == ListBoosts("boosted", BOOSTED_LIMIT)

\* GET /api/admin/boosts
GetAdminBoosts == ListBoosts("admin", ADMIN_BOOSTS_LIMIT)

NextBoostList ==
  \/ NextBoost
  \/ GetBoosted
  \/ GetAdminBoosts

SpecBoostList == Init /\ [][NextBoostList]_vars

\* ------------------------------------------------------------ subscriptions
\* POST /api/subscriptions/activate and POST /api/paypal/subscription-webhook.
\* Each handler issues at most one store call, so each is one action.  A row
\* of subscriptions holds user_id, plan_id, status, provider_subscription_id,
\* auto_renew, current_period_end, cancel_at_period_end, last_payment_at and
\* canceled_at (provider is always 'paypal' and is left out); the two
\* timestamps are {} until they are written.
SubPlanInputs == {NoVal, "starter", "pro"}
SubscriptionIdInputs == {NoVal, "I-1", "I-2"}
SubUserInputs == {NoVal, "u1"}
EventTypes ==
  {NoVal, "BILLING.SUBSCRIPTION.ACTIVATED", "BILLING.SUBSCRIPTION.UPDATED",
   "PAYMENT.SALE.COMPLETED", "BILLING.SUBSCRIPTION.CANCELLED",
   "BILLING.SUBSCRIPTION.SUSPENDED"}

\* resource.custom_id, "user:{userId}|plan:{planId}", as the parts between
\* the bars, each part as the pieces between the colons; <<>> when it is not
\* a string
CustomIdInputs ==
  { <<>>,
    << <<"user", "u1">>, <<"plan", "starter">> >>,
    << <<"user", "u1">>, <<"plan", "pro">> >>,
    << <<"plan", "pro">>, <<"user", "u1">>, <<"plan", "starter">> >>,
    << <<"plan", "pro">> >> }

\* customId.split('|').forEach(part => { const [k, v] = part.split(':') ... }):
\* the value of the last part whose key is k, null when there is none
customIdPart(customId, k) ==
  LET at == {i \in DOMAIN customId : customId[i][1] = k} IN
  IF at = {} THEN NoVal
  ELSE customId[CHOOSE i \in at : \A j \in at : j <= i][2]

\* computeSubscriptionPeriodEnd(planId): 30 days from now for every plan
computeSubscriptionPeriodEnd(plan, now) == now + 30

\* the payload of an activation, from the request body or from the webhook
SubscriptionPayload(user, plan, subscriptionId, now) ==
  [user_id |-> user, plan_id |-> plan, status |-> "active",
   provider_subscription_id |-> subscriptionId, auto_renew |-> TRUE,
   current_period_end |-> computeSubscriptionPeriodEnd(plan, now),
   cancel_at_period_end |-> FALSE]

\* the table holds one row per (user_id, plan_id): the key the webhook's
\* upsert names in onConflict
SubscriptionExists(user, plan) ==
  \E s \in subscriptions : s.user_id = user /\ s.plan_id = plan

\* .insert(payload): a new row, the columns the payload leaves out are null
InsertSubscription(table, payload) ==
  table \cup {[user_id |-> payload.user_id, plan_id |-> payload.plan_id,
               status |-> payload.status,
               provider_subscription_id |-> payload.provider_subscription_id,
               auto_renew |-> payload.auto_renew,
               current_period_end |-> payload.current_period_end,
               cancel_at_period_end |-> payload.cancel_at_period_end,
               last_payment_at |-> {}, canceled_at |-> {}]}

\* mutant: the upsert adds a row whether or not the pair has one
UpsertSubscription_Insert(table, payload) == InsertSubscription(table, payload)
\* .upsert(payload, { onConflict: 'user_id,plan_id' }): the row of the pair
\* takes the payload's columns and keeps its other columns; a new row when
\* the pair has none
UpsertSubscription(table, payload) ==
  IF \E s \in table : s.user_id = payload.user_id /\ s.plan_id = payload.plan_id
  THEN {IF s.user_id = payload.user_id /\ s.plan_id = payload.plan_id
        THEN [s EXCEPT !.status = payload.status,
                       !.provider_subscription_id = payload.provider_subscription_id,
                       !.auto_renew = payload.auto_renew,
                       !.current_period_end = payload.current_period_end,
                       !.cancel_at_period_end = payload.cancel_at_period_end]
        ELSE s : s \in table}
  ELSE InsertSubscription(table, payload)

\* .update({ last_payment_at, status: 'active' }).eq('provider_subscription_id', id)
PaymentCompleted(table, subscriptionId, now) ==
  {IF s.provider_subscription_id = subscriptionId
   THEN [s EXCEPT !.last_payment_at = {now}, !.status = "active"]
   ELSE s : s \in table}

\* .update({ status: 'canceled', auto_renew: false, cancel_at_period_end: true,
\*           canceled_at }).eq('provider_subscription_id', id)
SubscriptionCancelled(table, subscriptionId, now) ==
  {IF s.provider_subscription_id = subscriptionId
   THEN [s EXCEPT !.status = "canceled", !.auto_renew = FALSE,
                  !.cancel_at_period_end = TRUE, !.canceled_at = {now}]
   ELSE s : s \in table}

HookReply(route, eventType, user, plan, subscriptionId, code) ==
  hook' = [route |-> route, event_type |-> eventType, user_id |-> user,
           plan_id |-> plan, subscription_id |-> subscriptionId, status |-> code]

\* POST /api/subscriptions/activate
PostSubscriptionsActivate ==
  \E user \in SubUserInputs, plan \in SubPlanInputs, id \in SubscriptionIdInputs :
    /\ IF user = NoVal \/ plan = NoVal \/ id = NoVal
       THEN /\ HookReply("activate", NoVal, user, plan, id, 400)
            /\ UNCHANGED <<subscriptions, faults>>
       ELSE IF SubscriptionExists(user, plan)
       THEN /\ HookReply("activate", NoVal, user, plan, id, 500)
            /\ UNCHANGED <<subscriptions, faults>>
       ELSE \/ /\ subscriptions' =
                    InsertSubscription(subscriptions,
                                       SubscriptionPayload(user, plan, id, clock))
               /\ HookReply("activate", NoVal, user, plan, id, 200)
               /\ UNCHANGED faults
            \/ /\ StoreFails
               /\ HookReply("activate", NoVal, user, plan, id, 500)
               /\ UNCHANGED subscriptions
    /\ UNCHANGED <<ledgervars, salesvars, boostvars, collab, listed,
                   bannervars, payoutvars>>

\* POST /api/paypal/subscription-webhook: the store call of the event, whose
\* error is logged and not answered
WebhookWrite(eventType, user, plan, id) ==
  IF eventType \in {"BILLING.SUBSCRIPTION.ACTIVATED", "BILLING.SUBSCRIPTION.UPDATED"}
  THEN IF user = NoVal \/ plan = NoVal \/ id = NoVal
       THEN subscriptions
       ELSE UpsertSubscription(subscriptions,
                               SubscriptionPayload(user, plan, id, clock))
  ELSE IF eventType = "PAYMENT.SALE.COMPLETED"
  THEN IF id = NoVal THEN subscriptions
       ELSE PaymentCompleted(subscriptions, id, clock)
  ELSE IF eventType = "BILLING.SUBSCRIPTION.CANCELLED"
  THEN IF id = NoVal THEN subscriptions
       ELSE SubscriptionCancelled(subscriptions, id, clock)
  ELSE subscriptions

\* the events that reach a store call
WebhookCalls(eventType, user, plan, id) ==
  \/ /\ eventType \in {"BILLING.SUBSCRIPTION.ACTIVATED", "BILLING.SUBSCRIPTION.UPDATED"}
     /\ user # NoVal /\ plan # NoVal /\ id # NoVal
  \/ /\ eventType \in {"PAYMENT.SALE.COMPLETED", "BILLING.SUBSCRIPTION.CANCELLED"}
     /\ id # NoVal

\* the events drawn: custom_id is read only by the activation events, the
\* other events are drawn without it
EventDrawn(eventType, customId) ==
  eventType \notin {"BILLING.SUBSCRIPTION.ACTIVATED", "BILLING.SUBSCRIPTION.UPDATED"}
    => customId = <<>>

PostSubscriptionWebhook ==
  \E eventType \in EventTypes, id \in SubscriptionIdInputs, customId \in CustomIdInputs :
    LET user == customIdPart(customId, "user")
        plan == customIdPart(customId, "plan")
    IN
    /\ EventDrawn(eventType, customId)
    /\ IF eventType = NoVal
       THEN /\ HookReply("webhook", eventType, user, plan, id, 400)
            /\ UNCHANGED <<subscriptions, faults>>
       ELSE \/ /\ subscriptions' = WebhookWrite(eventType, user, plan, id)
               /\ HookReply("webhook", eventType, user, plan, id, 200)
               /\ UNCHANGED faults
            \/ /\ WebhookCalls(eventType, user, plan, id)
               /\ StoreFails
               /\ HookReply("webhook", eventType, user, plan, id, 200)
               /\ UNCHANGED subscriptions
    /\ UNCHANGED <<ledgervars, salesvars, boostvars, collab, listed,
                   bannervars, payoutvars>>

NextSub ==
  \/ PostSubscriptionsActivate
  \/ PostSubscriptionWebhook

SpecSub == Init /\ [][NextSub]_vars

\* ------------------------------------------------------------- site banners
\* PUT /api/site/banners/:id/active: three store calls, so three actions
\* after the arrival.  The path names a banner of the table or none ("n9").
BannerIdInputs == BannerIds \cup {"n9"}

BannerArrives(r) ==
  /\ banner[r].pc = "idle"
  /\ IF r = 1 THEN TRUE ELSE banner[r - 1].pc # "idle"

\* .update({ is_active: false }).eq('is_active', true)
DeactivateAll(table) == [b \in DOMAIN table |-> [table[b] EXCEPT !.is_active = FALSE]]

\* .update({ is_active: true }).eq('id', id)
Activate(table, id) ==
  [b \in DOMAIN table |-> IF b = id THEN [table[b] EXCEPT !.is_active = TRUE] ELSE table[b]]

\* the handler's response: the mapped rows (the active flag of each id)
MappedBanners(table) == {[id |-> b, active |-> table[b].is_active] : b \in DOMAIN table}

\* the request arrives; the handler is about to issue "deactivate all"
PutBannerActive(r) ==
  /\ BannerArrives(r)
  /\ \E id \in BannerIdInputs :
       banner' = [banner EXCEPT ![r] = [@ EXCEPT !.pc = "reset", !.id = id]]
  /\ UNCHANGED <<site_banners, creditvars, salesvars, boostvars, collab, listed,
                 subvars, payoutvars>>

\* the deactivation of every active banner; its error is only logged
DeactivateBanners(r) ==
  /\ banner[r].pc = "reset"
  /\ \/ /\ site_banners' = DeactivateAll(site_banners)
        /\ UNCHANGED faults
     \/ /\ StoreFails
        /\ UNCHANGED site_banners
  /\ banner' = [banner EXCEPT ![r] = [@ EXCEPT !.pc = "activate"]]
  /\ UNCHANGED <<ledgervars, salesvars, boostvars, collab, listed, subvars, payoutvars>>

\* the activation of the named banner; its error is answered with 500
ActivateBanner(r) ==
  /\ banner[r].pc = "activate"
  /\ \/ /\ site_banners' = Activate(site_banners, banner[r].id)
        /\ banner' = [banner EXCEPT ![r] = [@ EXCEPT !.pc = "select"]]
        /\ UNCHANGED faults
     \/ /\ StoreFails
        /\ banner' = [banner EXCEPT ![r] = [@ EXCEPT !.pc = "done", !.status = 500]]
        /\ UNCHANGED site_banners
  /\ UNCHANGED <<ledgervars, salesvars, boostvars, collab, listed, subvars, payoutvars>>

\* the list the handler answers with; [] when the select fails
SelectBanners(r) ==
  /\ banner[r].pc = "select"
  /\ \/ /\ banner' = [banner EXCEPT ![r] =
               [@ EXCEPT !.pc = "done", !.status = 200,
                         !.data = MappedBanners(site_banners)]]
        /\ UNCHANGED faults
     \/ /\ StoreFails
        /\ banner' = [banner EXCEPT ![r] = [@ EXCEPT !.pc = "done", !.status = 200]]
  /\ UNCHANGED <<site_banners, ledgervars, salesvars, boostvars, collab, listed,
                 subvars, payoutvars>>

NextBanner ==
  \E r \in Banners :
    \/ PutBannerActive(r)
    \/ DeactivateBanners(r)
    \/ ActivateBanner(r)
    \/ SelectBanners(r)

SpecBanner == Init /\ [][NextBanner]_vars

\* ----------------------------------------------------------------- payouts
\* POST /api/admin/payouts/:id/approve and .../deny: one store call each, so
\* each handler is one action.  The path names a payout of the table or none
\* ("p9").
PayoutIdInputs == PayoutIds \cup {"p9"}

\* process.env.ADMIN_API_KEY, and the x-admin-key header of a request
adminKey == "k"
AdminKeyInputs == {NoVal, "k", "x"}

\* assertAdmin(req, res)
assertAdmin(got) ==
  IF adminKey = NoVal THEN TRUE
  ELSE got # NoVal /\ got = adminKey

\* .update({ status: 'completed', completed_at }).eq('id', id)
Approved(table, id, now) ==
  [p \in DOMAIN table |->
     IF p = id THEN [table[p] EXCEPT !.status = "completed", !.completed_at = {now}]
     ELSE table[p]]

\* .update({ status: 'cancelled' }).eq('id', id)
Denied(table, id) ==
  [p \in DOMAIN table |->
     IF p = id THEN [table[p] EXCEPT !.status = "cancelled"] ELSE table[p]]

PayoutDecision(route, id, got, written) ==
  /\ IF ~assertAdmin(got)
     THEN /\ decision' = [route |-> route, id |-> id, key |-> got, status |-> 401]
          /\ UNCHANGED <<payouts, faults>>
     ELSE \/ /\ payouts' = written
             /\ decision' = [route |-> route, id |-> id, key |-> got,
                             status |-> IF id \in DOMAIN payouts THEN 200 ELSE 404]
             /\ UNCHANGED faults
          \/ /\ StoreFails
             /\ decision' = [route |-> route, id |-> id, key |-> got, status |-> 500]
             /\ UNCHANGED payouts
  /\ UNCHANGED <<ledgervars, salesvars, boostvars, collab, listed, subvars, bannervars>>

\* POST /api/admin/payouts/:id/approve
PostPayoutApprove ==
  \E id \in PayoutIdInputs, got \in AdminKeyInputs :
    PayoutDecision("approve", id, got, Approved(payouts, id, clock))

\* POST /api/admin/payouts/:id/deny
PostPayoutDeny ==
  \E id \in PayoutIdInputs, got \in AdminKeyInputs :
    PayoutDecision("deny", id, got, Denied(payouts, id))

NextPayout ==
  \/ PostPayoutApprove
  \/ PostPayoutDeny

SpecPayout == Init /\ [][NextPayout]_vars

\* ------------------------------------------------------ derived notions
Done(r) == pc[r] = "done"
Quiet == \A r \in Requests : pc[r] \in {"idle", "done"}
Started == {r \in Requests : pc[r] # "idle"}
Succeeded(r) == Done(r) /\ status[r] = 200

\* the signed amount a debit or credit request asks for
Signed(r) == IF kind[r] = "use" THEN 0 - amount[r] ELSE amount[r]

RECURSIVE SumSigned(_)
SumSigned(S) ==
  IF S = {} THEN 0
  ELSE LET r == CHOOSE x \in S : TRUE IN Signed(r) + SumSigned(S \ {r})

HistoryOf(u) == SelectSeq(recording_credit_history, LAMBDA e : e.user_id = u)

RECURSIVE SumDelta(_)
SumDelta(h) == IF h = <<>> THEN 0 ELSE h[1].delta + SumDelta(Tail(h))

EntriesBy(r, src) ==
  {i \in DOMAIN recording_credit_history :
     /\ recording_credit_history[i].by = r
     /\ recording_credit_history[i].source = src}

\* the beat_sales_split rows a record-split request inserted
PersistedBy(r) == SelectSeq(beat_sales_split, LAMBDA e : e.by = r)

\* the collaborators of a request's beat that have an account
LinkedIds(r) ==
  {split[r].collabs[j].id : j \in {n \in DOMAIN split[r].collabs :
                                      split[r].collabs[n].user_id # NoVal}}

\* the boost lifecycle of a beat at the current time
Lifecycle(beat) ==
  IF ~\E x \in boosted_beats : x.beat_id = beat THEN "NoBoost"
  ELSE IF \E x \in ActiveBoosts(clock) : x.beat_id = beat THEN "Active"
  ELSE "Expired"

\* ------------------------------------------------------------------ C1
\* C1 (as claimed): once every request has been answered, with no store
\* failure and only debits and credits on the account, the balance is the
\* signup balance plus the deltas of the requests that reported success.
\* (The claim's second half, that the latest ledger entry's balance_after is
\* the final balance, fails as well: see LatestEntryMatches.)
C1_NoLostUpdates ==
  \A u \in Users :
    ( /\ Quiet
      /\ faults = 0
      /\ RowsOf(u) # {}
      /\ \A r \in Started : kind[r] \in {"use", "add"} /\ userId[r] = u )
    => BalanceOf(RowsOf(u)) = SIGNUP_BONUS_CREDITS
          + SumSigned({r \in Started : Succeeded(r)})

LatestEntryMatches(u) ==
  LET h == HistoryOf(u) IN
  h # <<>> /\ h[Len(h)].balance_after = BalanceOf(RowsOf(u))

\* ------------------------------------------------------------------ C2
\* C2 (as claimed): when only GET /credits/balance requests for one new
\* account have run, all are answered and no store call failed, there is one
\* row, one 'signup' entry, and every caller got the same balance.
C2_EnsureAccountIdempotent ==
  \A u \in Users :
    ( /\ Quiet
      /\ faults = 0
      /\ Started # {}
      /\ \A r \in Started : kind[r] = "balance" /\ userId[r] = u )
    => /\ Cardinality(RowsOf(u)) = 1
       /\ Cardinality({i \in DOMAIN recording_credit_history :
             /\ recording_credit_history[i].user_id = u
             /\ recording_credit_history[i].source = "signup"}) = 1
       /\ \A r \in Started : status[r] = 200 /\ row[r] = RowsOf(u)

\* ------------------------------------------------------------------ C3
\* C3 (as claimed): a request whose insert of the balance row is rejected
\* because the row already exists is answered with success and holds the
\* row the winner created.
C3_LoserFallsBack ==
  \A r \in Requests :
    (Done(r) /\ error[r] = "AlreadyExists")
      => status[r] = 200 /\ row[r] # {}

C5_BalanceNonNegative ==
  \A x \in recording_credits : x.balance \in Nat

C5_Witness ==
  \E r1 \in Requests, r2 \in Requests :
    /\ r1 # r2
    /\ kind[r1] = "use" /\ Succeeded(r1)
    /\ kind[r2] = "use" /\ Done(r2) /\ status[r2] = 402
    /\ \E x \in recording_credits : x.balance < SIGNUP_BONUS_CREDITS

\* ------------------------------------------------------------------ C6
\* C6 (as claimed): after one request has run alone to its answer with no
\* store failure, the deltas of the account's ledger entries sum to its
\* balance, each balance_after is the prefix sum, and the latest
\* balance_after is the balance.
C6_LedgerReconstructs ==
  \A u \in Users :
    ( /\ Quiet
      /\ faults = 0
      /\ Started = {1}
      /\ RowsOf(u) # {} )
    => LET h == HistoryOf(u) IN
       /\ SumDelta(h) = BalanceOf(RowsOf(u))
       /\ \A i \in DOMAIN h : h[i].balance_after = SumDelta(SubSeq(h, 1, i))
       /\ LatestEntryMatches(u)

\* ------------------------------------------------------------------ C7
\* C7 (as claimed): a debit or credit answered with success has written the
\* balance it read plus its signed amount and has appended exactly one ledger
\* entry with that delta and the written balance.
C7_SuccessMeansApplied ==
  \A r \in Requests :
    (Succeeded(r) /\ kind[r] \in {"use", "add"})
      => /\ data[r] # {}
         /\ BalanceOf(data[r]) = BalanceOf(row[r]) + Signed(r)
         /\ Cardinality({i \in DOMAIN recording_credit_history :
               /\ recording_credit_history[i].by = r
               /\ recording_credit_history[i].source # "signup"
               /\ recording_credit_history[i].delta = Signed(r)
               /\ recording_credit_history[i].balance_after = BalanceOf(data[r])}) = 1

C9_NoPartialMutation ==
  faults = 0 =>
    /\ \A x \in recording_credits :
         \E i \in DOMAIN recording_credit_history :
           /\ recording_credit_history[i].user_id = x.user_id
           /\ recording_credit_history[i].source = "signup"
    /\ \A r \in Requests :
         data[r] # {} => EntriesBy(r, LedgerSource(r)) # {}

\* ------------------------------------------------------------------ C10
\* C10 (as claimed): a debit or credit never applies a balance computed from
\* a stale read: when its update is applied the row still holds the balance
\* the request read.
C10_NoStaleWrite ==
  [][\A r \in Requests :
       (pc[r] = "update" /\ pc'[r] = "history" /\ kind[r] \in {"use", "add"})
         => BalanceOf(RowsOf(userId[r])) = BalanceOf(row[r])]_vars

C12_NoDeduplication ==
  \A r \in Requests :
    ( /\ r + 1 \in Requests
      /\ kind[r] = "add" /\ Succeeded(r)
      /\ kind[r + 1] = "add" /\ Succeeded(r + 1)
      /\ userId[r + 1] = userId[r]
      /\ amount[r + 1] = amount[r]
      /\ source[r + 1] = source[r] )
    => /\ BalanceOf(data[r + 1]) = BalanceOf(row[r]) + 2 * amount[r]
       /\ faults = 0 =>
            /\ Cardinality(EntriesBy(r, source[r])) = 1
            /\ Cardinality(EntriesBy(r + 1, source[r])) = 1
            /\ \A i \in EntriesBy(r, source[r]) \cup EntriesBy(r + 1, source[r]) :
                 recording_credit_history[i].delta = amount[r]

\* the duplicate credit equals the balance it finds, and doubles it
C12_Witness ==
  \E r \in Requests :
    /\ r + 1 \in Requests
    /\ kind[r] = "add" /\ Succeeded(r)
    /\ kind[r + 1] = "add" /\ Succeeded(r + 1)
    /\ amount[r] = amount[r + 1] /\ source[r] = source[r + 1]
    /\ BalanceOf(row[r]) = 0 + amount[r]
    /\ BalanceOf(data[r]) = 2 * BalanceOf(row[r])
    /\ BalanceOf(RowsOf(userId[r])) = BalanceOf(row[r]) + 2 * amount[r]
    /\ Len(HistoryOf(userId[r])) = 3

C14_SyncSetsAllowance ==
  \A r \in Requests :
    (kind[r] = "sync" /\ data[r] # {})
      => /\ planId[r] \in DOMAIN RECORDING_PLANS
         /\ BalanceOf(data[r]) = RECORDING_PLANS[planId[r]].monthlyCredits
         /\ \A i \in EntriesBy(r, "subscription") :
              recording_credit_history[i].balance_after
                = RECORDING_PLANS[planId[r]].monthlyCredits

C14_Witness ==
  \E r \in Requests :
    /\ kind[r] = "sync" /\ Succeeded(r)
    /\ BalanceOf(row[r]) # SIGNUP_BONUS_CREDITS
    /\ BalanceOf(RowsOf(userId[r])) = RECORDING_PLANS[planId[r]].monthlyCredits
    /\ EntriesBy(r, "subscription") # {}

\* ------------------------------------------------------------------ C15
\* C15 (as claimed): the entry a subscription sync appends has as delta the
\* new balance minus the balance the sync found.
C15_SyncDeltaIsNetChange ==
  \A r \in Requests :
    kind[r] = "sync" =>
      \A i \in EntriesBy(r, "subscription") :
        recording_credit_history[i].delta
          = recording_credit_history[i].balance_after - BalanceOf(row[r])

C17_AppendOnly ==
  [][ /\ Len(recording_credit_history') >= Len(recording_credit_history)
      /\ SubSeq(recording_credit_history', 1, Len(recording_credit_history))
           = recording_credit_history ]_vars

C17_Witness ==
  /\ Len(recording_credit_history) >= 3
  /\ \E i \in DOMAIN recording_credit_history :
       recording_credit_history[i].source = "subscription"

C19_RecordsBeforeBalances ==
  \A r \in Splits :
    /\ (split[r].pc \in {"wallet", "upsert"} \/ split[r].attempted # {})
         => (split[r].collabs # <<>> /\ PersistedBy(r) = inserts(r))
    /\ split[r].error = "ledgerErr"
         => /\ split[r].pc = "done" /\ split[r].status = 400
            /\ PersistedBy(r) = <<>>
            /\ split[r].attempted = {} /\ split[r].credited = {}

C19_Witness ==
  \E r \in Splits, q \in Splits :
    /\ split[r].error = "ledgerErr" /\ split[r].status = 400
    /\ LinkedIds(r) # {} /\ user_wallet = {}
    /\ split[q].pc = "upsert" /\ PersistedBy(q) # <<>>

\* ------------------------------------------------------------------ C20
\* C20: a record-split request that has inserted its split rows and has
\* finished is answered 200 and has issued the wallet write of every
\* collaborator with an account, whatever wallet call failed on the way; its
\* split rows are in beat_sales_split as it inserted them.
C20_BestEffortCrediting ==
  \A r \in Splits :
    (split[r].pc = "done" /\ PersistedBy(r) # <<>>)
      => /\ split[r].status = 200
         /\ split[r].attempted = LinkedIds(r)
         /\ PersistedBy(r) = inserts(r)

C20_Witness ==
  \E r \in Splits :
    /\ split[r].pc = "done" /\ split[r].status = 200
    /\ split[r].attempted = {"c1", "c2"} /\ split[r].credited = {"c2"}
    /\ Len(PersistedBy(r)) = 2
    /\ \A w \in user_wallet : w.user_id # "u1"

\* ------------------------------------------------------------------ C21
\* C21: when a record-split request has finished with 200, every collaborator
\* of its beat with an account has a ledger entry with source sale-split and
\* the payout as delta on that account, and the account's ledger balance is
\* the balance after that entry; a collaborator without an account has a
\* split row and no wallet write.
C21_AppliedThroughLedger ==
  \A r \in Splits :
    (split[r].pc = "done" /\ split[r].status = 200)
      => \A j \in DOMAIN split[r].collabs :
           LET c == split[r].collabs[j] IN
           IF c.user_id # NoVal
             THEN \E n \in DOMAIN recording_credit_history :
                    LET e == recording_credit_history[n] IN
                    /\ e.user_id = c.user_id /\ e.source = "sale-split"
                    /\ e.delta = payout(split[r].creatorRevenue, c)
                    /\ RowsOf(c.user_id) # {}
             ELSE /\ c.id \notin split[r].attempted
                  /\ \E n \in DOMAIN PersistedBy(r) :
                       PersistedBy(r)[n].collaborator_id = c.id

\* ------------------------------------------------------------------ C22
\* C22: beat_sales_split never holds two rows with the same sale_id and
\* collaborator_id.
C22_OneRecordPerPair ==
  \A m \in DOMAIN beat_sales_split, n \in DOMAIN beat_sales_split :
    ( /\ beat_sales_split[m].sale_id = beat_sales_split[n].sale_id
      /\ beat_sales_split[m].collaborator_id = beat_sales_split[n].collaborator_id )
      => m = n

\* ------------------------------------------------------------------ C23
\* C23: a record-split request for the beat without collaborators makes no
\* store call after the select on collaborators: it has inserted no split
\* row and attempted no wallet write, and unless that select failed it is
\* answered 200 without an error.
C23_NoCollaborators ==
  \A r \in Splits :
    (split[r].pc # "idle" /\ split[r].beat_id = "b0")
      => /\ split[r].pc \in {"collabs", "done"}
         /\ split[r].collabs = <<>> /\ PersistedBy(r) = <<>>
         /\ split[r].attempted = {} /\ split[r].credited = {}
         /\ (split[r].pc = "done" /\ split[r].error # "collabErr")
              => (split[r].status = 200 /\ split[r].error = NoVal)

C23_Witness ==
  \E r \in Splits :
    /\ split[r].beat_id = "b0" /\ split[r].pc = "done" /\ split[r].status = 200
    /\ beat_sales_split = <<>> /\ user_wallet = {}

\* ------------------------------------------------------------------ C24
\* C24: the row a create request inserted for days >= 1 has tier 1 for days
\* below 7, tier 2 for days from 7 and below 14, tier 3 from 14 on, with
\* priority_score = tier * 100, starts_at = now and expires_at = now + days.
C24_TierMapping ==
  \A r \in Boosts :
    (boost[r].kind = "create" /\ boost[r].days >= 1)
      => \A x \in boost[r].data :
           /\ x.tier = (CASE boost[r].days < 7 -> 1
                          [] boost[r].days >= 7 /\ boost[r].days < 14 -> 2
                          [] boost[r].days >= 14 -> 3)
           /\ boost[r].days = 1 => x.tier = 1
           /\ boost[r].days = 7 => x.tier = 2
           /\ boost[r].days = 14 => x.tier = 3
           /\ x.priority_score = x.tier * 100
           /\ x.starts_at = boost[r].now
           /\ x.expires_at = boost[r].now + boost[r].days
           /\ x.beat_id = boost[r].beat_id

C24_Witness ==
  \E r \in Boosts, q \in Boosts :
    /\ boost[r].kind = "create" /\ boost[r].days = 7 /\ boost[r].status = 200
    /\ boost[q].kind = "create" /\ boost[q].days = 14 /\ boost[q].status = 200
    /\ boost[r].data \cup boost[q].data = boosted_beats
    /\ \E x \in boost[r].data : x.tier = 2 /\ x.priority_score = 200
    /\ \E x \in boost[q].data : x.tier = 3 /\ x.expires_at = x.starts_at + 14

\* ------------------------------------------------------------------ C25
\* C25: an activate request whose lookup did not fail and whose upsert was
\* accepted wrote expires_at = max(now, the expiry it read) + 3, 7 or 30 days
\* for tier 1, 2 or 3 when the beat's boost it read was still active, and
\* now + that duration otherwise; tier 2 with no boost gives now + 7.
C25_ActivateOrExtend ==
  \A r \in Boosts :
    ( /\ boost[r].kind = "activate" /\ boost[r].pc = "done"
      /\ boost[r].status = 200 /\ ~boost[r].existingError )
      => LET f == boost[r]
             duration == CASE f.tier = 1 -> 3 [] f.tier = 2 -> 7 [] f.tier = 3 -> 30
         IN
         /\ f.data # {}
         /\ \A x \in f.data :
              /\ \A e \in f.existing :
                   x.expires_at =
                     IF e.expires_at > f.now THEN e.expires_at + duration
                     ELSE f.now + duration
              /\ f.existing = {} => x.expires_at = f.now + duration
              /\ (f.existing = {} /\ f.tier = 2) => x.expires_at = f.now + 7

C25_Witness ==
  \E r \in Boosts, q \in Boosts :
    /\ boost[r].kind = "activate" /\ boost[r].tier = 2 /\ boost[r].status = 200
    /\ boost[r].existing = {} /\ ~boost[r].existingError
    /\ boost[q].kind = "activate" /\ boost[q].status = 200
    /\ boost[q].existing = boost[r].data /\ boost[q].now > boost[r].now
    /\ \E x \in boost[q].data :
         x.expires_at = boost[r].now + 7 + boostLengthDays[boost[q].tier]

\* ------------------------------------------------------------------ C26
\* C26: when the only requests so far are two accepted activate requests for
\* the same beat and no store call failed, the beat's expires_at is the
\* earlier now plus both durations.
C26_NoClobberedExtension ==
  \A r \in Boosts, q \in Boosts :
    ( /\ r < q /\ faults = 0
      /\ \A o \in Boosts : boost[o].pc # "idle" => o \in {r, q}
      /\ \A o \in {r, q} : /\ boost[o].kind = "activate" /\ boost[o].pc = "done"
                            /\ boost[o].status = 200 /\ boost[o].beat_id = "b1" )
      => \A x \in boosted_beats :
           x.expires_at = boost[r].now + boostLengthDays[boost[r].tier]
                            + boostLengthDays[boost[q].tier]

C28_StartsBeforeExpires ==
  \A x \in boosted_beats : x.starts_at <= x.expires_at

C31_ListActive ==
  [][ (listed'.status = 200 /\ listed' # listed)
        => /\ {listed'.items[i] : i \in DOMAIN listed'.items} = ActiveBoosts(clock)
           /\ Len(listed'.items) = Cardinality(ActiveBoosts(clock))
           /\ Ordered(listed'.items)
           /\ (listed.status = 200 /\ listed.now = clock
                 /\ {listed.items[i] : i \in DOMAIN listed.items} = ActiveBoosts(clock))
                => listed'.items = listed.items ]_vars

\* ------------------------------------------------------------------ C32
\* C32: an activate request whose lookup of the existing boost failed is
\* answered with an error and has written no row.
C32_FailedLookupSurfaced ==
  \A r \in Boosts :
    (boost[r].kind = "activate" /\ boost[r].existingError /\ boost[r].pc = "done")
      => (boost[r].status = 500 /\ boost[r].data = {})

C34_NoLostPayout ==
  \A r \in Splits, q \in Splits :
    ( /\ r < q /\ faults = 0
      /\ \A o \in Splits : split[o].pc # "idle" => o \in {r, q}
      /\ \A o \in {r, q} : /\ split[o].pc = "done" /\ split[o].status = 200
                            /\ split[o].beat_id = "b1" )
      => \E w \in user_wallet :
           /\ w.user_id = "u1"
           /\ w.balance = payout(split[r].creatorRevenue, split[r].collabs[1])
                            + payout(split[q].creatorRevenue, split[q].collabs[1])

\* ------------------------------------------------------------------ C35
\* C35: when a POST /collab/set request has been answered, then: if the
\* answer is 200 the split_percentage values the table holds for the beat
\* sum to 100; and if the body's percentages do not total 100 the answer is
\* 400 and the table holds for the beat the rows it held when the request
\* arrived.
C35_TotalsHundred ==
  \A r \in Collabs :
    (collab[r].pc = "done" /\ collab[r].beat_id # NoVal)
      => /\ collab[r].status = 200
              => total([j \in DOMAIN CollaboratorsOf(collab[r].beat_id) |->
                          [split_percentage |->
                             CollaboratorsOf(collab[r].beat_id)[j].split_percentage,
                           split |-> 0]]) = 1000
         /\ total(collab[r].collaborators) # 1000
              => /\ collab[r].status = 400
                 /\ CollaboratorsOf(collab[r].beat_id) = collab[r].before

\* ------------------------------------------------------------------ C36
\* C36: a record-split request for the beat b1, whose collaborators every
\* POST /collab/set replaces by a non-empty set, never finds the beat
\* without collaborators; and after a POST /collab/set request whose insert
\* failed the table holds for the beat the rows it held when the request
\* arrived.
C36_AtomicReplacement ==
  /\ \A q \in Splits :
       ( /\ split[q].beat_id = "b1" /\ split[q].pc = "done"
         /\ split[q].status = 200 )
         => split[q].collabs # <<>>
  /\ \A r \in Collabs :
       (collab[r].pc = "done" /\ collab[r].error = "insert")
         => CollaboratorsOf(collab[r].beat_id) = collab[r].before

\* ------------------------------------------------------------------ C37
\* C37: the step in which an activate request's upsert is accepted leaves the
\* beat with an expires_at later than the one stored before the step.
C37_NeverShortens ==
  [][ \A r \in Boosts :
        ( /\ boost[r].kind = "activate" /\ boost[r].pc = "upsert"
          /\ boost'[r].pc = "done" /\ boost'[r].status = 200 )
          => \A x \in boosted_beats, y \in boosted_beats' :
               (x.beat_id = boost[r].beat_id /\ y.beat_id = boost[r].beat_id)
                 => y.expires_at > x.expires_at ]_vars

\* ------------------------------------------------------------------ C38
\* C38: at most one banner has is_active = true; and when the only
\* set-active request so far has been answered 200 for a banner of the
\* table, that banner is active.
C38_SingleActive ==
  /\ Cardinality({b \in DOMAIN site_banners : site_banners[b].is_active}) <= 1
  /\ \A r \in Banners :
       ( /\ banner[r].pc = "done" /\ banner[r].status = 200
         /\ banner[r].id \in DOMAIN site_banners
         /\ \A q \in Banners \ {r} : banner[q].pc = "idle" )
         => site_banners[banner[r].id].is_active

\* ------------------------------------------------------------------ C39
\* C39: every subscription row has status 'canceled' exactly when
\* cancel_at_period_end is true and auto_renew is false, and a row with
\* status 'active' has cancel_at_period_end false.
C39_StatusConsistent ==
  \A s \in subscriptions :
    /\ s.status = "canceled" <=> (s.cancel_at_period_end /\ ~s.auto_renew)
    /\ s.status = "active" => ~s.cancel_at_period_end

\* ------------------------------------------------------------------ C40
\* C40: no step takes a payout from 'completed' to 'cancelled' or from
\* 'cancelled' to 'completed'.
C40_DecisionsTerminal ==
  [][ \A p \in DOMAIN payouts :
        /\ payouts[p].status = "completed" => payouts'[p].status # "cancelled"
        /\ payouts[p].status = "cancelled" => payouts'[p].status # "completed" ]_vars

====
